---- MODULE Spec2Model ----
(***************************************************************************)
(* A model of src/do.py, the minimal "do" implementation of redo.          *)
(*                                                                         *)
(* File names are sequences of their dot-separated components              *)
(* ("hello.o.do" is <<"hello","o","do">>), directories are sequences of    *)
(* their path components from the filesystem root (<<>> is "/"), and a     *)
(* path is a record [dir, name].  A relative path has a relative dir and   *)
(* is resolved against the working directory at the moment it is used,     *)
(* as the operating system does for the relative pathlib paths of the      *)
(* program.                                                                *)
(***************************************************************************)
EXTENDS Integers, Sequences, FiniteSets, TLC

VARIABLES
    fs,          \* regular files: absolute path -> content
    dirs,        \* existing directories (absolute)
    ledger,      \* .do_built files: directory holding one -> sequence of lines
    scriptName,  \* name of the real program file, RedoState.script_path.name
    clean,       \* the -c flag of the top-level invocation
    stack,       \* process tree: the invocations of main(), innermost last
    status,      \* exit status of the top-level invocation, or "running"
    session,     \* ghost: what the session has done so far
    rq,          \* resolver harness: the request [cwd, target]
    rOut         \* resolver harness: the answer, or "none"

vars == <<fs, dirs, ledger, scriptName, clean, stack, status, session, rq, rOut>>

----------------------------------------------------------------------------
(* Paths *)

ROOT == <<>>
StartDir == <<"s">>
SubDir == <<"s", "sub">>
SubSubDir == <<"s", "sub", "sub">>

MkPath(d, n) == [dir |-> d, name |-> n]

\* A relative path used while the working directory is cwd.
Abs(cwd, p) == MkPath(cwd \o p.dir, p.name)

IsPrefix(a, b) == Len(a) <= Len(b) /\ SubSeq(b, 1, Len(a)) = a

\* Path.parent of a directory; the root is its own parent.
Parent(d) == IF d = <<>> THEN d ELSE SubSeq(d, 1, Len(d) - 1)

\* os.path.relpath(path, start) for a start that is the directory of path or
\* one of its ancestors (the only case build_target produces: the recipe is
\* found in the working directory or above it).
relpath(absdir, start) ==
    IF IsPrefix(start, absdir) THEN SubSeq(absdir, Len(start) + 1, Len(absdir))
    ELSE absdir

\* target_path.with_suffix(target_path.suffix + sfx): sfx is added to the name.
AddSuffix(p, sfx) == MkPath(p.dir, p.name \o sfx)

\* Path(target).with_suffix('.did'): the last extension is REPLACED.
with_suffix_did(p) ==
    IF Len(p.name) > 1
    THEN MkPath(p.dir, SubSeq(p.name, 1, Len(p.name) - 1) \o <<"did">>)
    ELSE MkPath(p.dir, p.name \o <<"did">>)

IsFile(files, p) == p \in DOMAIN files
IsDir(ds, p) == Len(p.name) = 1 /\ Append(p.dir, p.name[1]) \in ds
Exists(files, ds, p) == IsFile(files, p) \/ IsDir(ds, p)

Write(files, p, c) == [q \in DOMAIN files \cup {p} |-> IF q = p THEN c ELSE files[q]]
Rename(files, a, b) == [q \in (DOMAIN files \ {a}) \cup {b} |-> IF q = b THEN files[a] ELSE files[q]]
Touch(files, p) == IF p \in DOMAIN files THEN files ELSE Write(files, p, "")

----------------------------------------------------------------------------
(* Path resolver: find_dofiles_in_dir, find_dofiles, find_dofile *)

MaxLevels == 100

StartsWithDefault(n) == Len(n) > 1 /\ n[1] = "default"

DefaultDo == <<"default", "do">>

\* The value of dofile before the loop of find_dofiles_in_dir.
InitialDofile(target_base) ==
    IF StartsWithDefault(target_base) THEN target_base
    ELSE IF Len(target_base) > 1 THEN Tail(target_base) ELSE target_base

\* The names the loop of find_dofiles_in_dir tests when none of them exists,
\* in order; dofile is the value at the top of an iteration.
RECURSIVE DefaultNames(_)
DefaultNames(dofile) ==
    LET stripped == IF StartsWithDefault(dofile) THEN Tail(dofile) ELSE dofile
        name == <<"default">> \o stripped
        rest == Tail(name)
    IN  IF name = DefaultDo THEN <<name>>
        ELSE <<name>> \o DefaultNames(IF Len(rest) <= 1 THEN DefaultDo
                                      ELSE <<"default">> \o Tail(rest))

\* A scan of candidate paths stops at the first that exists.
RECURSIVE ScanTested(_, _)
ScanTested(files, cands) ==
    IF cands = <<>> THEN <<>>
    ELSE IF IsFile(files, Head(cands)) THEN <<Head(cands)>>
    ELSE <<Head(cands)>> \o ScanTested(files, Tail(cands))

Last(s) == s[Len(s)]

\* find_dofiles_in_dir(dodir, target_base): the paths tested, in order, and
\* the path returned as a set of at most one path ({} is None).
find_dofiles_in_dir(files, dodir, target_base) ==
    LET names == DefaultNames(InitialDofile(target_base))
        cands == [i \in 1..Len(names) |-> MkPath(dodir, names[i])]
        tested == ScanTested(files, cands)
    IN  [tested |-> tested,
         found |-> IF IsFile(files, Last(tested)) THEN {Last(tested)} ELSE {}]

\* The for-loop of find_dofiles: base is the directory relative paths are
\* resolved against (the working directory for a relative current_dir, the
\* root for an absolute one), cur is current_dir, n the iterations left.
RECURSIVE WalkUp(_, _, _, _, _)
WalkUp(files, base, cur, target_base, n) ==
    IF n = 0 THEN [tested |-> <<>>, found |-> {}]
    ELSE LET here == find_dofiles_in_dir(files, base \o cur, target_base)
         IN  IF here.found # {} THEN here
             ELSE IF Parent(cur) = cur THEN [tested |-> here.tested, found |-> {}]
             ELSE LET up == WalkUp(files, base, Parent(cur), target_base, n - 1)
                  IN  [tested |-> here.tested \o up.tested, found |-> up.found]

\* The search below the early return of find_dofiles: all of it, as written.
SearchDefaults(files, cwd, target) ==
    IF target.dir = <<>> THEN WalkUp(files, ROOT, cwd, target.name, MaxLevels)
    ELSE WalkUp(files, cwd, target.dir, target.name, MaxLevels)

\* A find_dofiles without the early return of lines 87-88.
ExactStopsNever(files, exact) == FALSE

\* The early return of find_dofiles: does the exact recipe end the search?
ExactStops(files, exact) == IsFile(files, exact)

\* find_dofiles(target) run in working directory cwd: the candidate list
\* (resolved against cwd) and the paths tested for existence, in order.
find_dofiles(files, cwd, target) ==
    LET exact == Abs(cwd, MkPath(target.dir, target.name \o <<"do">>))
        walk == SearchDefaults(files, cwd, target)
    IN  IF ExactStops(files, exact)
        THEN [candidates |-> <<exact>>, tested |-> <<exact>>]
        ELSE [candidates |-> <<exact>> \o
                  (IF walk.found = {} THEN <<>> ELSE <<CHOOSE p \in walk.found : TRUE>>),
              tested |-> <<exact>> \o walk.tested]

\* find_dofile(target): the first candidate that exists, as a set of at
\* most one path ({} is None).
find_dofile(files, cwd, target) ==
    LET c == find_dofiles(files, cwd, target).candidates
        hits == {i \in 1..Len(c) : IsFile(files, c[i])}
    IN  IF hits = {} THEN {}
        ELSE {c[CHOOSE i \in hits : \A j \in hits : i <= j]}

----------------------------------------------------------------------------
(* Bounds and inputs *)

MaxTargets == 2      \* longest target list of one invocation
MaxDepth == 2        \* deepest nesting of invocations (1 = no recursion)

HelloO == <<"hello", "o">>

\* Target arguments, relative to the directory the invocation starts in.
TargetArgs == {MkPath(<<>>, HelloO), MkPath(<<"sub">>, HelloO), MkPath(<<>>, <<"sub">>)}

\* Targets a recipe asks for through the shim commands.
NestedArgs == {MkPath(<<>>, HelloO)}

TargetLists == UNION {[1..n -> TargetArgs] : n \in 1..MaxTargets}

ScriptNames == {"do", "redo"}
TopCmds == {"do", "redo"}
NestedCmds == {"redo-ifchange"}

FilesOf(paths, content) == [p \in paths |-> content]

Merge(f, g) == [p \in DOMAIN f \cup DOMAIN g |-> IF p \in DOMAIN f THEN f[p] ELSE g[p]]

BaseDirs == {ROOT, StartDir, SubDir}
DeepDirs == BaseDirs \cup {SubSubDir}

NoLedgers == [d \in {} |-> <<>>]

Tree(files, ds) == [files |-> files, dirs |-> ds, ledger |-> NoLedgers]

\* The ledger of the start directory as an earlier session left it.
OldLedger(lines) == [d \in {StartDir} |-> lines]

\* The tree an earlier session leaves that built hello.o from hello.o.do in
\* the start directory: target, committed stamp, one ledger line (lines
\* 282-293).
BuiltBefore ==
    [files |-> Merge(FilesOf({MkPath(StartDir, HelloO \o <<"do">>)}, "do"),
                     Merge(FilesOf({MkPath(StartDir, HelloO)}, "old"),
                           FilesOf({MkPath(StartDir, HelloO \o <<"did">>)}, ""))),
     dirs |-> BaseDirs,
     ledger |-> OldLedger(<<MkPath(<<>>, HelloO)>>)]

\* The tree an earlier session leaves that was interrupted while the recipe
\* of hello.o ran, before the recipe wrote anything: the ledger touched by
\* setup (line 121), the temporary stamp touched at line 265, no ledger line.
InterruptedBefore ==
    [files |-> Merge(FilesOf({MkPath(StartDir, HelloO \o <<"do">>)}, "do"),
                     FilesOf({MkPath(StartDir, HelloO \o <<"did", "tmp">>)}, "")),
     dirs |-> BaseDirs,
     ledger |-> OldLedger(<<>>)]

\* The tree an earlier session leaves that built the directory target sub
\* from sub.do and aborted at the rename of line 287: the ledger line of
\* line 283, the temporary stamp and the temporary output.
AbortedBefore ==
    [files |-> Merge(FilesOf({MkPath(StartDir, <<"sub", "do">>)}, "do"),
                     Merge(FilesOf({MkPath(StartDir, <<"sub", "redo", "tmp">>)}, "old"),
                           FilesOf({MkPath(StartDir, <<"sub", "did", "tmp">>)}, ""))),
     dirs |-> BaseDirs,
     ledger |-> OldLedger(<<MkPath(<<>>, <<"sub">>)>>)]

\* Initial trees: the recipes present, beside an old target, and the trees
\* earlier sessions leave behind.
Layouts ==
    { Tree(FilesOf({}, "do"), BaseDirs),
      Tree(FilesOf({MkPath(StartDir, HelloO \o <<"do">>)}, "do"), BaseDirs),
      Tree(FilesOf({MkPath(SubDir, HelloO \o <<"do">>)}, "do"), BaseDirs),
      Tree(FilesOf({MkPath(SubDir, HelloO \o <<"do">>)}, "do"), DeepDirs),
      Tree(FilesOf({MkPath(StartDir, <<"default", "o", "do">>)}, "do"), BaseDirs),
      Tree(FilesOf({MkPath(StartDir, <<"default", "o">>)}, "do"), BaseDirs),
      Tree(FilesOf({MkPath(ROOT, DefaultDo)}, "do"), BaseDirs),
      Tree(FilesOf({MkPath(StartDir, DefaultDo)}, "do"), BaseDirs),
      Tree(FilesOf({MkPath(StartDir, DefaultDo)}, "do"), DeepDirs),
      Tree(FilesOf({MkPath(StartDir, <<"sub", "do">>)}, "do"), BaseDirs),
      Tree(Merge(FilesOf({MkPath(StartDir, HelloO \o <<"do">>)}, "do"),
                 FilesOf({MkPath(StartDir, HelloO)}, "old")), BaseDirs),
      BuiltBefore,
      InterruptedBefore,
      AbortedBefore }

Output(depth) == IF depth = 1 THEN "out1" ELSE IF depth = 2 THEN "out2" ELSE "outN"

NoPath == MkPath(<<>>, <<>>)

----------------------------------------------------------------------------
(* Invocations *)

\* RedoState.__init__ and the local state of main, redo_main and
\* build_target of one process.  goal .. results are history fields.
NewFrame(cmd, top, dir, targets, pc) ==
    [cmd |-> cmd, top |-> top, startDir |-> dir, cwd |-> dir,
     targets |-> targets, idx |-> 1, pc |-> pc,
     tp |-> NoPath, dofile |-> NoPath, origCwd |-> dir, tmpGiven |-> NoPath,
     exitCode |-> 0, wphase |-> "none", spawned |-> FALSE,
     goal |-> NoPath, pre |-> "absent", preDid |-> FALSE, preLen |-> 0,
     given |-> "absent",
     kind |-> "none", calls |-> <<>>, results |-> <<>>]

NewSession == [built |-> {}, rebuilt |-> {}, done |-> <<>>]

Top == stack[Len(stack)]
Running == stack # <<>>
SetTop(f) == [stack EXCEPT ![Len(stack)] = f]

built_file(f) == f.startDir

StateOf(files, ds, p) ==
    IF IsDir(ds, p) THEN "dir" ELSE IF IsFile(files, p) THEN files[p] ELSE "absent"

\* redo_main, lines 313-326: the (target_dir, target_name) pair handed to
\* build_target for the argument arg when the working directory is cwd.
target_pair(cwd, start_dir, arg) ==
    MkPath(relpath(Abs(cwd, arg).dir, start_dir), arg.name)

\* build_target, lines 221-225.
should_build(name, files, ds, target_path) ==
    \/ name = "redo"
    \/ /\ (~Exists(files, ds, target_path) \/ IsDir(ds, target_path))
       /\ ~Exists(files, ds, AddSuffix(target_path, <<"did">>))

\* What the next iteration of redo_main's loop works on.
CurArg(f) == f.targets[f.idx]
CurPair(f) == target_pair(f.cwd, f.startDir, CurArg(f))
CurGoal(f) == Abs(f.startDir, CurPair(f))
CurTargetDir(f) == f.startDir \o CurPair(f).dir
AtLoop(f) == f.pc = "loop" /\ f.idx <= Len(f.targets)

LinesOf(ledg, d) == IF d \in DOMAIN ledg THEN ledg[d] ELSE <<>>

\* History of a request: reset per build, then filled as the build proceeds.
Requested(f, kind) ==
    [f EXCEPT !.goal = CurGoal(f),
              !.pre = StateOf(fs, dirs, CurGoal(f)),
              !.preDid = Exists(fs, dirs, AddSuffix(CurGoal(f), <<"did">>)),
              !.preLen = Len(LinesOf(ledger, built_file(f))),
              !.given = "absent", !.kind = kind, !.spawned = FALSE,
              !.wphase = "none", !.dofile = NoPath, !.tmpGiven = NoPath,
              !.tp = CurPair(f),
              !.calls = Append(f.calls, f.idx)]

\* A redo_main that goes on with the next target after a failure.
after_build_all(f, success) ==
    [f EXCEPT !.idx = f.idx + 1, !.pc = "loop", !.results = Append(f.results, success)]

\* redo_main, lines 329-333: where the loop goes after build_target returned.
after_build(f, success) ==
    IF success THEN [f EXCEPT !.idx = f.idx + 1, !.pc = "loop",
                              !.results = Append(f.results, TRUE)]
    ELSE [f EXCEPT !.pc = "failed", !.results = Append(f.results, FALSE)]

----------------------------------------------------------------------------
(* Environment manager and session driver *)

Front(s) == SubSeq(s, 1, Len(s) - 1)

RemoveAll(files, paths) == [q \in DOMAIN files \ paths |-> files[q]]

\* A setup that removes temporary stamps only, whatever the mode.
setup_suffixes_tmp_only(cleanFlag) == {<<"did", "tmp">>}

\* The suffixes setup_build_environment unlinks for one recorded target.
setup_suffixes(cleanFlag) ==
    IF cleanFlag THEN {<<>>, <<"did">>, <<"did", "tmp">>} ELSE {<<"did", "tmp">>}

\* setup_build_environment, lines 128-138, from ledger line i on.  unlink
\* of a directory raises, which ends the invocation (err).
RECURSIVE setup_lines(_, _, _, _, _, _)
setup_lines(files, ds, cwd, lines, i, cleanFlag) ==
    IF i > Len(lines) THEN [fs |-> files, err |-> FALSE]
    ELSE LET t == Abs(cwd, lines[i])
         IN  IF cleanFlag /\ IsDir(ds, t) THEN [fs |-> files, err |-> TRUE]
             ELSE setup_lines(RemoveAll(files, {AddSuffix(t, x) : x \in setup_suffixes(cleanFlag)}),
                              ds, cwd, lines, i + 1, cleanFlag)

\* setup_build_environment, lines 120-121: touch the ledger.
touch_ledger(ledg, d) == IF d \in DOMAIN ledg THEN ledg ELSE
    [x \in DOMAIN ledg \cup {d} |-> IF x = d THEN <<>> ELSE ledg[x]]

\* A ledger opened for writing instead of appending.
append_ledger_truncating(ledg, d, line) ==
    [x \in DOMAIN ledg \cup {d} |-> IF x = d THEN <<line>> ELSE ledg[x]]

\* build_target, lines 282-283: append one line, creating the file.
append_ledger(ledg, d, line) ==
    [x \in DOMAIN ledg \cup {d} |-> IF x = d THEN Append(LinesOf(ledg, d), line) ELSE ledg[x]]

\* cleanup_on_exit, lines 345-353: the stamp paths it unlinks, resolved
\* against the working directory redo_main left behind.
cleanup_on_exit(files, ledg, cleanFlag, f) ==
    IF cleanFlag /\ built_file(f) \in DOMAIN ledg
    THEN LET lines == ledg[built_file(f)]
         IN  RemoveAll(files, {Abs(f.cwd, with_suffix_did(lines[i])) : i \in 1..Len(lines)})
    ELSE files

\* sys.exit(code) of one invocation: the process leaves the tree.
Leave(f, code) ==
    /\ stack' = Front(stack)
    /\ status' = IF Len(stack) = 1 THEN code ELSE status
    /\ session' = [session EXCEPT !.done =
                      <<[targets |-> f.targets, calls |-> f.calls,
                         results |-> f.results, code |-> code,
                         cleaned |-> f.top /\ f.pc # "error"]>>]

\* main, lines 428-437, of the top-level invocation.
main_setup ==
    /\ Running /\ Top.pc = "start"
    /\ LET f == Top
           led == touch_ledger(ledger, built_file(f))
           r == setup_lines(fs, dirs, f.cwd, led[built_file(f)], 1, clean)
       IN  /\ ledger' = led
           /\ fs' = r.fs
           /\ stack' = SetTop([f EXCEPT !.pc = IF r.err THEN "error" ELSE "loop"])
    /\ UNCHANGED <<dirs, scriptName, clean, status, session, rq, rOut>>

\* build_target, lines 227-229: the target counts as satisfied.
build_skip ==
    /\ Running /\ AtLoop(Top)
    /\ ~should_build(scriptName, fs, dirs, CurGoal(Top))
    /\ LET f == Requested(Top, "skipped")
       IN  stack' = SetTop(after_build([f EXCEPT !.cwd = f.startDir], TRUE))
    /\ UNCHANGED <<fs, dirs, ledger, scriptName, clean, status, session, rq, rOut>>

\* build_target, line 236: os.chdir into a directory that does not exist.
build_chdir_error ==
    /\ Running /\ AtLoop(Top)
    /\ should_build(scriptName, fs, dirs, CurGoal(Top))
    /\ CurTargetDir(Top) \notin dirs
    /\ LET f == Requested(Top, "error")
       IN  stack' = SetTop([f EXCEPT !.cwd = f.startDir, !.pc = "error"])
    /\ UNCHANGED <<fs, dirs, ledger, scriptName, clean, status, session, rq, rOut>>

\* build_target, lines 236-241: no recipe.
build_no_dofile ==
    /\ Running /\ AtLoop(Top)
    /\ should_build(scriptName, fs, dirs, CurGoal(Top))
    /\ CurTargetDir(Top) \in dirs
    /\ find_dofile(fs, CurTargetDir(Top), MkPath(<<>>, CurArg(Top).name)) = {}
    /\ LET f == Requested(Top, "nodofile")
       IN  stack' = SetTop(after_build([f EXCEPT !.cwd = CurTargetDir(Top)], FALSE))
    /\ UNCHANGED <<fs, dirs, ledger, scriptName, clean, status, session, rq, rOut>>

\* build_target, lines 236-270: the recipe is found and started.
build_begin ==
    /\ Running /\ AtLoop(Top)
    /\ should_build(scriptName, fs, dirs, CurGoal(Top))
    /\ CurTargetDir(Top) \in dirs
    /\ \E dofile \in find_dofile(fs, CurTargetDir(Top), MkPath(<<>>, CurArg(Top).name)) :
         LET f == Requested(Top, "running")
             cwdT == CurTargetDir(Top)
             dofile_dir == dofile.dir
             rel_temp == MkPath(relpath(cwdT \o f.tp.dir, dofile_dir),
                                f.tp.name \o <<"redo", "tmp">>)
             did_temp == Abs(dofile_dir, AddSuffix(f.tp, <<"did", "tmp">>))
             canTouch == built_file(f) \in DOMAIN ledger /\ did_temp.dir \in dirs
         IN  /\ fs' = IF canTouch THEN Touch(fs, did_temp) ELSE fs
             /\ stack' = SetTop([f EXCEPT !.cwd = dofile_dir, !.origCwd = cwdT,
                                          !.dofile = dofile,
                                          !.tmpGiven = Abs(dofile_dir, rel_temp),
                                          !.pc = "run"])
             /\ session' = [session EXCEPT !.rebuilt =
                               IF f.goal \in session.built THEN @ \cup {f.goal} ELSE @]
    /\ UNCHANGED <<dirs, ledger, scriptName, clean, status, rq, rOut>>

----------------------------------------------------------------------------
(* The recipe process started by run_dofile: opaque, so any behaviour *)

\* The recipe starts writing its output to the path it was given.
recipe_write_begin ==
    /\ Running /\ Top.pc = "run" /\ Top.wphase = "none"
    /\ Top.tmpGiven.dir \in dirs
    /\ fs' = Write(fs, Top.tmpGiven, "part")
    /\ stack' = SetTop([Top EXCEPT !.wphase = "part"])
    /\ UNCHANGED <<dirs, ledger, scriptName, clean, status, session, rq, rOut>>

\* The recipe completes its output.
recipe_write_end ==
    /\ Running /\ Top.pc = "run" /\ Top.wphase = "part"
    /\ fs' = Write(fs, Top.tmpGiven, Output(Len(stack)))
    /\ stack' = SetTop([Top EXCEPT !.wphase = "full"])
    /\ UNCHANGED <<dirs, ledger, scriptName, clean, status, session, rq, rOut>>

\* The recipe runs a shim command before it produces output: a nested
\* invocation of main in the recipe's working directory, with DO_BUILT set
\* in its environment.
recipe_spawn ==
    /\ Running /\ Top.pc = "run" /\ ~Top.spawned /\ Top.wphase = "none"
    /\ Len(stack) < MaxDepth
    /\ \E cmd \in NestedCmds, t \in NestedArgs :
         stack' = Append(SetTop([Top EXCEPT !.spawned = TRUE]),
                         NewFrame(cmd, FALSE, Top.cwd, <<t>>, "loop"))
    /\ UNCHANGED <<fs, dirs, ledger, scriptName, clean, status, session, rq, rOut>>

\* The recipe exits (run_dofile, lines 199-204).
recipe_exit ==
    /\ Running /\ Top.pc = "run"
    /\ \E code \in {0, 1} :
         /\ Top.wphase = "part" => code = 1
         /\ stack' = SetTop([Top EXCEPT !.exitCode = code, !.pc = "exited",
                                !.given = StateOf(fs, dirs, Top.tmpGiven)])
    /\ UNCHANGED <<fs, dirs, ledger, scriptName, clean, status, session, rq, rOut>>

----------------------------------------------------------------------------
(* Build executor: what build_target does once the recipe has exited *)

temp_path(f) == Abs(f.cwd, AddSuffix(f.tp, <<"redo", "tmp">>))
did_temp(f) == Abs(f.cwd, AddSuffix(f.tp, <<"did", "tmp">>))
did_file(f) == Abs(f.cwd, AddSuffix(f.tp, <<"did">>))
target_path(f) == Abs(f.cwd, f.tp)

\* build_target, lines 272-279 and the finally clause.
build_fail ==
    /\ Running /\ Top.pc = "exited" /\ Top.exitCode # 0
    /\ LET f == Top
       IN  /\ fs' = RemoveAll(fs, {temp_path(f), did_temp(f), did_file(f)})
           /\ stack' = SetTop(after_build([f EXCEPT !.cwd = f.origCwd, !.kind = "failed"], FALSE))
    /\ UNCHANGED <<dirs, ledger, scriptName, clean, status, session, rq, rOut>>

\* build_target, lines 281-283.
build_record ==
    /\ Running /\ Top.pc = "exited" /\ Top.exitCode = 0
    /\ ledger' = append_ledger(ledger, built_file(Top), Top.tp)
    /\ stack' = SetTop([Top EXCEPT !.pc = "rename"])
    /\ UNCHANGED <<fs, dirs, scriptName, clean, status, session, rq, rOut>>

\* build_target, lines 285-287.
build_rename ==
    /\ Running /\ Top.pc = "rename"
    /\ LET f == Top
       IN  /\ IsFile(fs, temp_path(f)) => ~IsDir(dirs, target_path(f))
           /\ fs' = IF IsFile(fs, temp_path(f))
                    THEN Rename(fs, temp_path(f), target_path(f)) ELSE fs
           /\ stack' = SetTop([f EXCEPT !.pc = "stamp"])
    /\ UNCHANGED <<dirs, ledger, scriptName, clean, status, session, rq, rOut>>

\* build_target, line 287: rename of a file over a directory raises.
build_rename_error ==
    /\ Running /\ Top.pc = "rename"
    /\ IsFile(fs, temp_path(Top)) /\ IsDir(dirs, target_path(Top))
    /\ stack' = SetTop([Top EXCEPT !.cwd = Top.origCwd, !.kind = "error", !.pc = "error"])
    /\ UNCHANGED <<fs, dirs, ledger, scriptName, clean, status, session, rq, rOut>>

\* build_target, lines 289-295 and the finally clause.
build_stamp ==
    /\ Running /\ Top.pc = "stamp"
    /\ LET f == Top
       IN  /\ IsFile(fs, did_temp(f)) \/ did_file(f).dir \in dirs
           /\ fs' = IF IsFile(fs, did_temp(f))
                    THEN Rename(fs, did_temp(f), did_file(f))
                    ELSE Touch(fs, did_file(f))
           /\ stack' = SetTop(after_build([f EXCEPT !.cwd = f.origCwd, !.kind = "built"], TRUE))
           /\ session' = [session EXCEPT !.built = @ \cup {f.goal}]
    /\ UNCHANGED <<dirs, ledger, scriptName, clean, status, rq, rOut>>

\* build_target, line 293: touch in a directory that does not exist raises.
build_stamp_error ==
    /\ Running /\ Top.pc = "stamp"
    /\ ~IsFile(fs, did_temp(Top)) /\ did_file(Top).dir \notin dirs
    /\ stack' = SetTop([Top EXCEPT !.cwd = Top.origCwd, !.kind = "error", !.pc = "error"])
    /\ UNCHANGED <<fs, dirs, ledger, scriptName, clean, status, session, rq, rOut>>

\* main, lines 445-451: redo_main has returned.
main_exit ==
    /\ Running
    /\ Top.pc = "failed" \/ (Top.pc = "loop" /\ Top.idx > Len(Top.targets))
    /\ fs' = IF Top.top THEN cleanup_on_exit(fs, ledger, clean, Top) ELSE fs
    /\ Leave(Top, IF Top.pc = "failed" THEN "exit1" ELSE "exit0")
    /\ UNCHANGED <<dirs, ledger, scriptName, clean, rq, rOut>>

\* main, lines 459-461: an exception ends the invocation.
main_error ==
    /\ Running /\ Top.pc = "error"
    /\ Leave(Top, "exit1")
    /\ UNCHANGED <<fs, dirs, ledger, scriptName, clean, rq, rOut>>

----------------------------------------------------------------------------
(* Specification of the build engine *)

NoRq == [cwd |-> <<>>, target |-> NoPath]
NoOut == [candidates |-> <<>>, tested |-> <<>>, selected |-> {}, step |-> "idle"]

Init ==
    /\ \E tree \in Layouts :
         /\ fs = tree.files
         /\ dirs = tree.dirs
         /\ ledger = tree.ledger
    /\ scriptName \in ScriptNames
    /\ clean \in BOOLEAN
    /\ \E cmd \in TopCmds, targets \in TargetLists :
         stack = <<NewFrame(cmd, TRUE, StartDir, targets, "start")>>
    /\ status = "running"
    /\ session = NewSession
    /\ rq = NoRq
    /\ rOut = NoOut

Next ==
    \/ main_setup
    \/ build_skip
    \/ build_chdir_error
    \/ build_no_dofile
    \/ build_begin
    \/ recipe_write_begin
    \/ recipe_write_end
    \/ recipe_spawn
    \/ recipe_exit
    \/ build_fail
    \/ build_record
    \/ build_rename
    \/ build_rename_error
    \/ build_stamp
    \/ build_stamp_error
    \/ main_exit
    \/ main_error

Spec == Init /\ [][Next]_vars

----------------------------------------------------------------------------
(* Specification of the path resolver alone: find_dofiles and find_dofile  *)
(* applied to one request in a tree drawn from the files that matter to it *)

MaxFiles == 2        \* most files present in a tree of the resolver runs

ABC == <<"a", "b", "c">>

\* Requests: a bare name in SubDir (what build_target passes), a name with
\* a directory part seen from StartDir (what redo-whichdo may pass).
Requests ==
    { [cwd |-> SubDir, target |-> MkPath(<<>>, ABC)],
      [cwd |-> StartDir, target |-> MkPath(<<"sub">>, ABC)],
      [cwd |-> SubDir, target |-> MkPath(<<>>, HelloO)],
      [cwd |-> SubDir, target |-> MkPath(<<>>, <<"x">>)] }

Range(seq) == {seq[i] : i \in 1..Len(seq)}

\* The default recipes of section 4.1 of the specification for a base name:
\* default.<suffix>.do for ever shorter suffixes, then default.do.
RECURSIVE SpecSuffixNames(_)
SpecSuffixNames(sfx) ==
    IF sfx = <<>> THEN <<DefaultDo>>
    ELSE <<(<<"default">> \o sfx \o <<"do">>)>> \o SpecSuffixNames(Tail(sfx))

SpecDefaultNames(name) == SpecSuffixNames(IF Len(name) > 1 THEN Tail(name) ELSE name)

\* The file names that can matter to a request, in the three directories.
RelevantFiles(name) ==
    {MkPath(d, n) : d \in BaseDirs,
                    n \in {name \o <<"do">>} \cup Range(SpecDefaultNames(name))
                              \cup Range(DefaultNames(InitialDofile(name)))}

RECURSIVE UpTo(_, _)
UpTo(S, n) == IF n = 0 THEN {{}}
              ELSE LET prev == UpTo(S, n - 1)
                   IN  prev \cup {F \cup {x} : F \in prev, x \in S}

ExactOf(r) == Abs(r.cwd, MkPath(r.target.dir, r.target.name \o <<"do">>))

InitResolve ==
    /\ rq \in Requests
    /\ \E F \in UpTo(RelevantFiles(rq.target.name), MaxFiles) : fs = FilesOf(F, "do")
    /\ rOut = NoOut
    /\ dirs = BaseDirs
    /\ ledger = NoLedgers
    /\ scriptName = "do"
    /\ clean = FALSE
    /\ stack = <<>>
    /\ status = "idle"
    /\ session = NewSession

\* whichdo_main, line 338: find_dofiles(target).
whichdo_main ==
    /\ rOut.step = "idle"
    /\ LET r == find_dofiles(fs, rq.cwd, rq.target)
       IN  rOut' = [candidates |-> r.candidates, tested |-> r.tested,
                    selected |-> {}, step |-> "listed"]
    /\ UNCHANGED <<fs, dirs, ledger, scriptName, clean, stack, status, session, rq>>

\* find_dofile(target) on the same request.
select_dofile ==
    /\ rOut.step = "listed"
    /\ rOut' = [rOut EXCEPT !.selected = find_dofile(fs, rq.cwd, rq.target),
                            !.step = "selected"]
    /\ UNCHANGED <<fs, dirs, ledger, scriptName, clean, stack, status, session, rq>>

NextResolve == whichdo_main \/ select_dofile

SpecResolve == InitResolve /\ [][NextResolve]_vars

----------------------------------------------------------------------------
(* Claims about the path resolver, checked under SpecResolve *)

Resolved == rOut.step # "idle"

\* C5: when T.do exists, find_dofiles(T) returns exactly [T.do], tests no
\* default recipe in any directory, and find_dofile(T) selects T.do.
C5_DirectRecipeOnly ==
    (Resolved /\ IsFile(fs, ExactOf(rq))) =>
        /\ rOut.candidates = <<ExactOf(rq)>>
        /\ rOut.tested = <<ExactOf(rq)>>
        /\ rOut.step = "selected" => rOut.selected = {ExactOf(rq)}

\* T.do exists beside a default recipe in the tree, and T.do was selected.
C5_Witness ==
    /\ rOut.step = "selected"
    /\ IsFile(fs, ExactOf(rq))
    /\ \E p \in DOMAIN fs : p.name[1] = "default"
    /\ rOut.selected = {ExactOf(rq)}

\* The names tested in directory d, in order, the exact recipe aside.
NamesTestedIn(d) ==
    LET InDir(p) == p.dir = d /\ p # ExactOf(rq)
        ps == SelectSeq(rOut.tested, InDir)
    IN  [i \in 1..Len(ps) |-> ps[i].name]

\* C6: with no direct recipe and no default recipe anywhere, the names
\* tested in the target's directory are default.<suffix>.do for ever shorter
\* suffixes and then default.do, in this order; every other directory is
\* tested with the same sequence, and no other name is tested.
C6_DefaultSequence ==
    (Resolved /\ DOMAIN fs = {}) =>
        /\ NamesTestedIn(ExactOf(rq).dir) = SpecDefaultNames(rq.target.name)
        /\ \A i \in 1..Len(rOut.tested) :
              NamesTestedIn(rOut.tested[i].dir) = SpecDefaultNames(rq.target.name)

Ancestors(d) == {SubSeq(d, 1, n) : n \in 0..Len(d)}

\* The directories from the target's up to the root holding a default
\* recipe that matches the target.
MatchDirs ==
    {d \in Ancestors(ExactOf(rq).dir) :
        \E n \in Range(SpecDefaultNames(rq.target.name)) : IsFile(fs, MkPath(d, n))}

NearestMatch ==
    LET d == CHOOSE x \in MatchDirs : \A y \in MatchDirs : Len(y) <= Len(x)
        names == SpecDefaultNames(rq.target.name)
        i == CHOOSE k \in 1..Len(names) :
                 /\ IsFile(fs, MkPath(d, names[k]))
                 /\ \A j \in 1..(k - 1) : ~IsFile(fs, MkPath(d, names[j]))
    IN  MkPath(d, names[i])

\* C7: with no direct recipe and matching default recipes in two or more
\* directories on the way up, the one in the nearest directory is selected,
\* whatever the suffixes; within a directory the most specific one.  Stated
\* for the requests build_target makes: a bare name in the target's directory.
C7_NearestWins ==
    (/\ rOut.step = "selected" /\ rq.target.dir = <<>>
     /\ ~IsFile(fs, ExactOf(rq)) /\ Cardinality(MatchDirs) >= 2) =>
        rOut.selected = {NearestMatch}

----------------------------------------------------------------------------
(* Claims about the build engine, checked under Spec *)

Frames == Range(stack)

\* A build_target call for a target that is not a directory has just
\* returned True after running a recipe that did nothing but write its
\* output and exit.
JustBuilt(f) == f.pc = "loop" /\ f.kind = "built" /\ ~f.spawned /\ f.pre # "dir"

\* A build_target call that has just returned False on a nonzero exit.
JustFailed(f) == f.pc = "failed" /\ f.kind = "failed" /\ ~f.spawned

IsTmpName(n) == Len(n) >= 2 /\ SubSeq(n, Len(n) - 1, Len(n)) = <<"redo", "tmp">>

\* C1: when the recipe has left content C at the temporary-output path it
\* was given and exited 0, the target's final path holds exactly C once
\* build_target has returned, and no final path ever holds a partly
\* written value.
C1_OutputCommitted ==
    /\ \A f \in Frames :
          (JustBuilt(f) /\ f.given \notin {"absent", "dir"}) =>
              StateOf(fs, dirs, f.goal) = f.given
    /\ \A p \in DOMAIN fs : fs[p] = "part" => IsTmpName(p.name)

\* C2: after build_target has returned failure on a nonzero exit, the
\* target's final file is as it was before the build and neither T.did nor
\* T.did.tmp exists.
C2_FailureRestores ==
    \A f \in Frames :
        JustFailed(f) =>
            /\ StateOf(fs, dirs, f.goal) = f.pre
            /\ ~IsFile(fs, AddSuffix(f.goal, <<"did">>))
            /\ ~IsFile(fs, AddSuffix(f.goal, <<"did", "tmp">>))

\* C3: a target whose build has completed successfully in this session is
\* never built again in it: no recipe is started for it a second time
\* (the always-build program name of C4 and directory targets aside).
C3_BuiltOnce ==
    scriptName # "redo" => \A t \in session.rebuilt : IsDir(dirs, t)

ResolutionRan(f) == f.kind \in {"running", "built", "failed", "nodofile", "error"}

\* C4: a request runs recipe resolution and execution if and only if the
\* program was invoked under the name redo, or the target is missing or a
\* directory and has no stamp.
C4_BuildDecision ==
    \A f \in Frames :
        f.kind # "none" =>
            (ResolutionRan(f) <=>
                \/ f.cmd = "redo"
                \/ f.pre \in {"absent", "dir"} /\ ~f.preDid)

\* C8: after a build that ended in success the committed stamp T.did exists
\* beside T and the last line of the session's ledger is T's, appended by
\* this build.
C8_StampAndLedger ==
    \A f \in Frames :
        (JustBuilt(f) /\ f.top) =>
            /\ IsFile(fs, AddSuffix(f.goal, <<"did">>))
            /\ LinesOf(ledger, StartDir) # <<>>
            /\ Abs(StartDir, Last(LinesOf(ledger, StartDir))) = f.goal

\* No T.do beside the target and no default*.do in its directory or above.
NoRecipeFor(t) ==
    \A p \in DOMAIN fs :
        ~ \/ p = AddSuffix(t, <<"do">>)
          \/ /\ p.dir \in Ancestors(t.dir)
             /\ Len(p.name) >= 2 /\ p.name[1] = "default" /\ Last(p.name) = "do"

\* C9: a target that must be built and has no direct and no default recipe
\* up to the root fails to build: no recipe is started, nothing is created
\* for it, and no ledger line is appended.
C9_NoRecipeFails ==
    \A f \in Frames :
        (ResolutionRan(f) /\ NoRecipeFor(f.goal)) =>
            /\ f.kind \in {"nodofile", "error"}
            /\ f.pc \in {"failed", "error"}
            /\ StateOf(fs, dirs, f.goal) = f.pre
            /\ IsFile(fs, AddSuffix(f.goal, <<"did">>)) = f.preDid

AllTrue(seq) == \A i \in 1..Len(seq) : seq[i]

\* C10: the targets of one invocation are built in list order, one at a
\* time; after the first failure no later target is attempted and the
\* invocation exits 1; it exits 0 only if every target succeeded.
C10_OrderedShortCircuit ==
    /\ \A f \in Frames :
          /\ \A k \in 1..Len(f.calls) : f.calls[k] = k
          /\ Len(f.results) <= Len(f.calls) /\ Len(f.calls) <= Len(f.results) + 1
          /\ \A k \in 1..(Len(f.results) - 1) : f.results[k]
          /\ (f.results # <<>> /\ ~Last(f.results)) =>
                 f.pc = "failed" /\ Len(f.calls) = Len(f.results)
    /\ \A d \in Range(session.done) :
          /\ \A k \in 1..Len(d.calls) : d.calls[k] = k
          /\ \A k \in 1..(Len(d.results) - 1) : d.results[k]
          /\ d.code = "exit0" <=>
                 (Len(d.results) = Len(d.targets) /\ AllTrue(d.results))
          /\ d.code \in {"exit0", "exit1"}

\* A top-level invocation with two targets has ended: the first target's
\* build failed, the second was never attempted, the exit status is 1.
C10_Witness ==
    /\ stack = <<>> /\ status = "exit1"
    /\ \E d \in Range(session.done) :
          Len(d.targets) = 2 /\ d.calls = <<1>> /\ d.results = <<FALSE>>

----------------------------------------------------------------------------
(* Claims about the ledger and the clean mode, checked under Spec *)

IsDidTmpName(n) == Len(n) >= 2 /\ SubSeq(n, Len(n) - 1, Len(n)) = <<"did", "tmp">>

\* The step of the top-level invocation that is its setup phase.
SetupStep == Running /\ Top.top /\ Top.pc = "start"

\* The targets the ledger of the start directory records.
Recorded(ledg) == {Abs(StartDir, l) : l \in Range(LinesOf(ledg, StartDir))}

\* C11: when the setup phase of a top-level invocation in clean mode hands
\* over to the first build, every target recorded in the ledger by earlier
\* sessions and its stamp <target>.did are gone and the ledger file exists;
\* in non-clean mode the setup phase removes nothing but temporary stamps.
C11_CleanSetup ==
    [][SetupStep =>
          /\ (clean /\ Top'.pc = "loop") =>
                 /\ StartDir \in DOMAIN ledger'
                 /\ \A t \in Recorded(ledger) :
                        /\ ~Exists(fs', dirs', t)
                        /\ ~Exists(fs', dirs', AddSuffix(t, <<"did">>))
          /\ ~clean =>
                 \A q \in DOMAIN fs :
                    ~IsDidTmpName(q.name) => (q \in DOMAIN fs' /\ fs'[q] = fs[q])]_vars

\* Clean mode is past its setup and about to start its first build; the
\* ledger records a target of an earlier session, which is gone.
C11_Witness ==
    /\ clean /\ Running /\ Top.top /\ Top.pc = "loop" /\ Top.calls = <<>>
    /\ Recorded(ledger) # {}
    /\ \A t \in Recorded(ledger) : ~Exists(fs, dirs, t)

\* The top-level invocation has returned from redo_main and run
\* cleanup_on_exit (an exception skips it).
EndedByExit == stack = <<>> /\ \E d \in Range(session.done) : d.cleaned

\* C12: at the end of a top-level session in clean mode no recorded target
\* T has its stamp T.did any more, and the ledger file is still there.
C12_CleanEndRemovesStamps ==
    (clean /\ EndedByExit) =>
        /\ StartDir \in DOMAIN ledger
        /\ \A t \in Recorded(ledger) : ~IsFile(fs, AddSuffix(t, <<"did">>))

\* C13: the ledger is append-only: across every step every ledger file
\* that exists still exists and its earlier content is a prefix of its later
\* content.
C13_LedgerAppendOnly ==
    [][\A d \in DOMAIN ledger :
          d \in DOMAIN ledger' /\ IsPrefix(ledger[d], ledger'[d])]_vars

\* A build of this session has appended its line behind the line an earlier
\* session left in the ledger.
C13_Witness ==
    /\ Len(LinesOf(ledger, StartDir)) >= 2
    /\ session.built # {}

----------------------------------------------------------------------------
(* Claims about the scope of a build, checked under Spec *)

\* C14: a session has one ledger, <start-dir>/.do_built of the top-level
\* invocation: no invocation creates or writes a ledger anywhere else.
C14_SingleLedger == DOMAIN ledger \subseteq {StartDir}

\* A step of build_target itself: not the recipe process, not setup, not
\* the end of the invocation.
ExecutorStep == Running /\ (AtLoop(Top) \/ Top.pc \in {"exited", "rename", "stamp"})

\* The target the build executor is working on in an ExecutorStep.
StepGoal == IF AtLoop(Top) THEN CurGoal(Top) ELSE Top.goal

\* T, T.did, T.did.tmp and T.redo.tmp.
OwnFiles(t) ==
    {AddSuffix(t, x) : x \in {<<>>, <<"did">>, <<"did", "tmp">>, <<"redo", "tmp">>}}

\* C15: a step of the build of a target T that is not a directory creates,
\* modifies or deletes no file other than T, T.did, T.did.tmp and T.redo.tmp
\* beside T.
C15_BuildFrame ==
    [][(ExecutorStep /\ ~IsDir(dirs, StepGoal)) =>
          \A q \in DOMAIN fs \cup DOMAIN fs' :
              (q \in DOMAIN fs /\ q \in DOMAIN fs' /\ fs[q] = fs'[q])
              \/ q \in OwnFiles(StepGoal)]_vars

\* A build_target call for a target that is not a directory has just
\* returned after running a recipe that started no other invocation.
JustFinished(f) ==
    /\ f.pc \in {"loop", "failed"} /\ f.kind \in {"built", "failed"}
    /\ ~f.spawned /\ f.pre # "dir"

\* C16: when a build of T has finished, in success or failure, neither the
\* temporary output handed to the recipe nor T.did.tmp exists.
C16_NoTemporariesLeft ==
    \A f \in Frames :
        JustFinished(f) =>
            /\ ~IsFile(fs, f.tmpGiven)
            /\ ~IsFile(fs, AddSuffix(f.goal, <<"did", "tmp">>))

\* A build_target call has ended otherwise than in success, its recipe (if
\* any) having started no other invocation.
EndedWithoutSuccess(f) ==
    /\ f.kind \in {"failed", "nodofile", "skipped", "error"}
    /\ f.pc \in {"loop", "failed", "error"}
    /\ ~f.spawned

\* C17: a build that fails, finds no recipe, is skipped or aborts with an
\* error while committing leaves no ledger line: the ledger is as long as
\* it was when the request was made.
C17_LedgerOnlySuccess ==
    \A f \in Frames :
        EndedWithoutSuccess(f) => Len(LinesOf(ledger, built_file(f))) = f.preLen

\* C18: after the setup phase of a top-level invocation, in either mode, no
\* <target>.did.tmp of an interrupted earlier build exists.
C18_NoStaleTemporaryStamp ==
    \A f \in Frames :
        (f.top /\ f.pc = "loop" /\ f.calls = <<>>) =>
            \A q \in DOMAIN fs : ~IsDidTmpName(q.name)

\* C19: every target of an invocation denotes the file its argument names
\* seen from the directory the invocation was started in, whatever was
\* built before it.
C19_TargetsFromStartDir ==
    \A f \in Frames :
        f.kind # "none" => f.goal = Abs(f.startDir, f.targets[Len(f.calls)])

\* C20: no two invocations of the process tree are executing the recipe of
\* the same target at the same time (the always-build program name aside).
C20_OneRecipePerTarget ==
    scriptName # "redo" =>
        \A i, j \in 1..Len(stack) :
            (i < j /\ stack[i].pc = "run" /\ stack[j].pc = "run") =>
                stack[i].goal # stack[j].goal

====
